---- MODULE Spec2Model ----
(***************************************************************************)
(* tmptoml: resolve a group and a secondary group of a TOML document,     *)
(* flatten them into a string-to-string map and render a Tera template.   *)
(* The module models src/src/tmptoml.rs (the core pipeline) and           *)
(* src/src/main.rs (the command line entry point's own pipeline).         *)
(***************************************************************************)
EXTENDS Integers, Sequences, FiniteSets, TLC

(***************************************************************************)
(* toml::Value, restricted to the shapes the flattening distinguishes.    *)
(***************************************************************************)
StringValue(s) == [tag |-> "String", s |-> s]
IntegerValue(n) == [tag |-> "Integer", n |-> n]
ArrayValue(xs) == [tag |-> "Array", a |-> xs]
TableValue(t) == [tag |-> "Table", t |-> t]

IsTable(value) == value.tag = "Table"

\* The empty HashMap / Table.
EmptyMap == <<>>

Quote == "\""

RECURSIVE JoinInts(_)
\* The elements of an integer array separated by ", " as toml's Display
\* writes them.
JoinInts(xs) ==
    IF Len(xs) = 0 THEN ""
    ELSE IF Len(xs) = 1 THEN ToString(Head(xs))
    ELSE ToString(Head(xs)) \o ", " \o JoinInts(Tail(xs))

\* value.to_string(): toml::Value's Display writes the value as TOML, so a
\* string keeps its surrounding quotes.
ValueToString(value) ==
    CASE value.tag = "String" -> Quote \o value.s \o Quote
      [] value.tag = "Integer" -> ToString(value.n)
      [] value.tag = "Array" -> "[" \o JoinInts(value.a) \o "]"

\* The inner loop of flatten_sections: every entry of the table is inserted
\* unless its key is already present (f @@ g keeps f where both are defined).
InsertTable(flattened, table) ==
    flattened @@ [k \in DOMAIN table |-> ValueToString(table[k])]

\* if !flattened.contains_key(key) { flattened.insert(key, value.to_string()) }
InsertIfAbsent(flattened, key, value) ==
    flattened @@ (key :> ValueToString(value))

\* A mutant of FlattenEntry: sibling tables are merged as well.
FlattenEntryMergeSiblings(flattened, key, value, secondary_group_section_name) ==
    IF IsTable(value)
    THEN InsertTable(flattened, value.t)
    ELSE InsertIfAbsent(flattened, key, value)

\* A mutant of FlattenEntry: a later write replaces an earlier one.
FlattenEntryLastWins(flattened, key, value, secondary_group_section_name) ==
    IF key = secondary_group_section_name
    THEN IF IsTable(value)
         THEN [k \in DOMAIN value.t |-> ValueToString(value.t[k])] @@ flattened
         ELSE flattened
    ELSE IF IsTable(value)
         THEN flattened
         ELSE (key :> ValueToString(value)) @@ flattened

\* The body of the closure passed to group_section.iter().for_each.
FlattenEntry(flattened, key, value, secondary_group_section_name) ==
    IF key = secondary_group_section_name
    THEN IF IsTable(value)
         THEN InsertTable(flattened, value.t)
         ELSE flattened
    ELSE IF IsTable(value)
         THEN flattened
         ELSE InsertIfAbsent(flattened, key, value)

RECURSIVE FlattenFrom(_, _, _, _)
\* The for_each over the members of the group in the order the HashMap
\* yields them, starting from the accumulator flattened.
FlattenFrom(group_section, secondary_group_section_name, order, flattened) ==
    IF Len(order) = 0 THEN flattened
    ELSE FlattenFrom(group_section, secondary_group_section_name, Tail(order),
                     FlattenEntry(flattened, Head(order), group_section[Head(order)],
                                  secondary_group_section_name))

\* flatten_sections of tmptoml.rs; order is the iteration order of the
\* HashMap, which the program does not control.
flatten_sections(group_section, secondary_group_section_name, order) ==
    FlattenFrom(group_section, secondary_group_section_name, order, EmptyMap)

\* The closure body of main.rs's flatten_sections: every table is merged.
MainFlattenEntry(flattened, key, value) ==
    IF IsTable(value)
    THEN InsertTable(flattened, value.t)
    ELSE InsertIfAbsent(flattened, key, value)

RECURSIVE MainFlattenFrom(_, _, _)
MainFlattenFrom(group_section, order, flattened) ==
    IF Len(order) = 0 THEN flattened
    ELSE MainFlattenFrom(group_section, Tail(order),
                         MainFlattenEntry(flattened, Head(order), group_section[Head(order)]))

\* flatten_sections of main.rs (one argument).
main_flatten_sections(group_section, order) ==
    MainFlattenFrom(group_section, order, EmptyMap)

\* The iteration orders a HashMap with these keys can yield.
Orders(keys) ==
    {o \in [1..Cardinality(keys) -> keys] : \A i, j \in DOMAIN o : i # j => o[i] # o[j]}

(***************************************************************************)
(* Bounded inputs.                                                         *)
(***************************************************************************)
MaxMembers == 2

MemberKeys == {"name", "sub", "other_sub"}
InnerKeys == {"name", "z"}
UnrelatedKeys == {"u"}

TopScalars == {StringValue("top"), IntegerValue(1), ArrayValue(<<1, 9>>)}
InnerScalars == {StringValue("inner"), IntegerValue(9)}

\* The functions from a subset of keys, of at most n elements, to values.
MapsOver(keys, values, n) ==
    UNION {[d -> values] : d \in {s \in SUBSET keys : Cardinality(s) <= n}}

Tables == {TableValue(t) : t \in MapsOver(InnerKeys, InnerScalars, Cardinality(InnerKeys))}
Groups == MapsOver(MemberKeys, TopScalars \cup Tables, MaxMembers)

(***************************************************************************)
(* Inputs of the pipeline: the files on disk and the four arguments.      *)
(***************************************************************************)
MaxGroups == 1

GroupIds == {"a", "c"}

\* A toml document maps group identifiers to groups (type Config).
EndToEndGroup == ("foo" :> StringValue("bar")) @@
                 ("b" :> TableValue("baz" :> StringValue("qux")))
PrecedenceGroup == ("name" :> StringValue("top")) @@
                   ("sub" :> TableValue(("name" :> StringValue("inner")) @@
                                        ("x" :> IntegerValue(1))))
SiblingGroup == ("sub" :> TableValue("x" :> IntegerValue(1))) @@
                ("other_sub" :> TableValue("z" :> IntegerValue(9)))
ScalarSecondaryGroup == ("sub" :> StringValue("top")) @@ ("x" :> IntegerValue(1))

SampleGroups == {EndToEndGroup, PrecedenceGroup, SiblingGroup, ScalarSecondaryGroup}

Documents == MapsOver(GroupIds, SampleGroups, MaxGroups)

\* A template is a sequence of literal text and {{ variable }} segments.
Lit(text) == [kind |-> "lit", text |-> text]
Var(name) == [kind |-> "var", text |-> name]

HelloTemplate == <<Lit("Hello "), Var("foo"), Lit(" and "), Var("baz")>>
NameTemplate == <<Var("name"), Lit("/"), Var("x")>>
SiblingTemplate == <<Var("x"), Lit(" "), Var("z")>>

Templates == {HelloTemplate, NameTemplate, SiblingTemplate}

\* What a path holds: nothing readable, text that does not parse, or text
\* that parses to body.
Unreadable == [state |-> "unreadable"]
Invalid == [state |-> "invalid"]
Parses(body) == [state |-> "parses", body |-> body]

\* PathBuf::to_str(): None when the path is not valid UTF-8.
None == [some |-> FALSE]
Some(path) == [some |-> TRUE, path |-> path]

ConfigPath == "cfg.toml"
TemplatePath == "out.tmpl"

\* The config path argument together with what the file system holds there.
\* The empty path names no file.
ConfigInputs ==
    {<<None, Unreadable>>, <<Some(""), Unreadable>>}
    \cup {<<Some(ConfigPath), f>> : f \in {Unreadable, Invalid} \cup {Parses(d) : d \in Documents}}

TemplateFiles == {Unreadable, Invalid} \cup {Parses(t) : t \in Templates}

(***************************************************************************)
(* Results: Result<String, TmpTomlErr>.                                    *)
(***************************************************************************)
Ok(text) == [kind |-> "Ok", sub |-> "", payload |-> text]
FileErr(path) == [kind |-> "File", sub |-> "FileNotFound", payload |-> path]
GroupNotFound(id) == [kind |-> "GroupNotFound", sub |-> "", payload |-> id]
ConfigErr == [kind |-> "Config", sub |-> "", payload |-> "toml::de::Error"]
RenderErr(sub, payload) == [kind |-> "Render", sub |-> sub, payload |-> payload]
Pending == [kind |-> "Pending", sub |-> "", payload |-> ""]

RECURSIVE RenderText(_, _)
\* tera.render: the segments in order, a variable replaced by its value in
\* the context. The template is named "template", so nothing is escaped.
RenderText(template, context) ==
    IF Len(template) = 0 THEN ""
    ELSE (IF Head(template).kind = "lit" THEN Head(template).text
          ELSE context[Head(template).text])
         \o RenderText(Tail(template), context)

\* The variables a template reads.
TemplateVars(template) ==
    {template[i].text : i \in {j \in DOMAIN template : template[j].kind = "var"}}

\* fn build_tera_context: every entry is inserted into a fresh Context.
build_tera_context(template_values) ==
    [k \in DOMAIN template_values |-> template_values[k]]

\* tera.add_template_file(..).map_err(..)?: every failure of the call, the
\* read of the file included, is mapped to InvalidTemplate.
add_template_file_result(path, file) ==
    IF file.state = "unreadable"
    THEN RenderErr("InvalidTemplate", "Failed to parse template file with error: io")
    ELSE IF file.state = "invalid"
    THEN RenderErr("InvalidTemplate", "Failed to parse template file with error: syntax")
    ELSE Pending

\* tera.render(..).map_err(RenderError): a variable missing from the
\* context is a render error.
render_result(template, context) ==
    IF TemplateVars(template) \subseteq DOMAIN context
    THEN Ok(RenderText(template, context))
    ELSE RenderErr("RenderError", "tera::Error")

\* A mutant of read_file: the error carries no path.
read_file_no_path(path, file) ==
    IF ~path.some THEN FileErr("")
    ELSE IF file.state = "unreadable" THEN FileErr("")
    ELSE Pending

\* fn read_file(path: Option<&str>) of tmptoml.rs: Pending stands for Ok.
read_file(path, file) ==
    IF ~path.some THEN FileErr("")
    ELSE IF file.state = "unreadable" THEN FileErr(path.path)
    ELSE Pending

\* fn read_file(path: &str) of main.rs.
main_read_file(path, file) ==
    IF file.state = "unreadable" THEN FileErr(path) ELSE Pending

VARIABLES
    \* the flatten_sections calls made on one input
    group_section, secondary_group_section_name, first, second, unrelated,
    \* the arguments and the files
    config_file_path, config_file, template_file_path, template_file,
    group_id, sec_group_id,
    \* render_template of tmptoml.rs
    pc, toml_config, order, template_values, tera_context, stages,
    template_opened, result,
    \* run of main.rs
    main_pc, main_config, main_order, main_template_values, main_tera_context,
    main_result

flattenVars == <<group_section, secondary_group_section_name, first, second, unrelated>>
inputVars == <<config_file_path, config_file, template_file_path, template_file,
               group_id, sec_group_id>>
coreVars == <<pc, toml_config, order, template_values, tera_context, stages,
              template_opened, result>>
mainVars == <<main_pc, main_config, main_order, main_template_values,
              main_tera_context, main_result>>

vars == <<flattenVars, inputVars, coreVars, mainVars>>

NotRun == [ran |-> FALSE]


(***************************************************************************)
(* Calls of flatten_sections on one input.                                 *)
(***************************************************************************)
\* A first call of flatten_sections; the traversal order is recorded.
FlattenFirst ==
    /\ ~first.ran
    /\ \E o \in Orders(DOMAIN group_section) :
         first' = [ran |-> TRUE, order |-> o,
                   flattened |-> flatten_sections(group_section,
                                     secondary_group_section_name, o)]
    /\ UNCHANGED <<group_section, secondary_group_section_name, second, unrelated>>
    /\ UNCHANGED <<inputVars, coreVars, mainVars>>

\* A second call on the same input.
FlattenSecond ==
    /\ first.ran
    /\ ~second.ran
    /\ \E o \in Orders(DOMAIN group_section) :
         second' = [ran |-> TRUE,
                    flattened |-> flatten_sections(group_section,
                                      secondary_group_section_name, o)]
    /\ UNCHANGED <<group_section, secondary_group_section_name, first, unrelated>>
    /\ UNCHANGED <<inputVars, coreVars, mainVars>>

\* A call with an identifier that is no key of the group.
FlattenUnrelated ==
    /\ ~unrelated.ran
    /\ \E u \in (MemberKeys \cup UnrelatedKeys) \ DOMAIN group_section :
       \E o \in Orders(DOMAIN group_section) :
         unrelated' = [ran |-> TRUE, id |-> u,
                       flattened |-> flatten_sections(group_section, u, o)]
    /\ UNCHANGED <<group_section, secondary_group_section_name, first, second>>
    /\ UNCHANGED <<inputVars, coreVars, mainVars>>

(***************************************************************************)
(* render_template of tmptoml.rs, one action per stage.                    *)
(***************************************************************************)
\* return Err(e): the run ends with e and nothing else of the run changes.
Fail(e) ==
    /\ pc' = "done"
    /\ result' = e

\* A mutant of ReadConfig: the template file is opened before the config is
\* read, and its failure is returned first.
ReadConfigTemplateFirst ==
    /\ pc = "start"
    /\ stages' = Append(stages, "load")
    /\ template_opened' = TRUE
    /\ LET t == add_template_file_result(template_file_path, template_file)
           r == read_file(config_file_path, config_file) IN
         IF t # Pending THEN Fail(t)
         ELSE IF r # Pending THEN Fail(r)
         ELSE pc' = "read" /\ UNCHANGED result
    /\ UNCHANGED <<toml_config, order, template_values, tera_context>>
    /\ UNCHANGED <<flattenVars, inputVars, mainVars>>

\* parse_toml_to_config: read_file(path)?
ReadConfig ==
    /\ pc = "start"
    /\ stages' = Append(stages, "load")
    /\ LET r == read_file(config_file_path, config_file) IN
         IF r # Pending THEN Fail(r)
         ELSE pc' = "read" /\ UNCHANGED result
    /\ UNCHANGED <<toml_config, order, template_values, tera_context, template_opened>>
    /\ UNCHANGED <<flattenVars, inputVars, mainVars>>

\* parse_toml_to_config: toml::from_str(&file_content)?
ParseConfig ==
    /\ pc = "read"
    /\ stages' = Append(stages, "parse")
    /\ IF config_file.state = "invalid"
       THEN Fail(ConfigErr) /\ UNCHANGED toml_config
       ELSE pc' = "parsed" /\ toml_config' = config_file.body /\ UNCHANGED result
    /\ UNCHANGED <<order, template_values, tera_context, template_opened>>
    /\ UNCHANGED <<flattenVars, inputVars, mainVars>>

\* A mutant of ResolveGroup: the error carries the secondary identifier.
ResolveGroupWrongId ==
    /\ pc = "parsed"
    /\ stages' = Append(stages, "resolve")
    /\ IF group_id \notin DOMAIN toml_config
       THEN Fail(GroupNotFound(sec_group_id))
       ELSE pc' = "group" /\ UNCHANGED result
    /\ UNCHANGED <<toml_config, order, template_values, tera_context, template_opened>>
    /\ UNCHANGED <<flattenVars, inputVars, mainVars>>

\* if !toml_config.contains_key(&group_id) { return Err(GroupNotFound(group_id)) }
ResolveGroup ==
    /\ pc = "parsed"
    /\ stages' = Append(stages, "resolve")
    /\ IF group_id \notin DOMAIN toml_config
       THEN Fail(GroupNotFound(group_id))
       ELSE pc' = "group" /\ UNCHANGED result
    /\ UNCHANGED <<toml_config, order, template_values, tera_context, template_opened>>
    /\ UNCHANGED <<flattenVars, inputVars, mainVars>>

\* if !toml_config[&group_id].contains_key(&sec_group_id) { return Err(..) }
ResolveSecondaryGroup ==
    /\ pc = "group"
    /\ IF sec_group_id \notin DOMAIN toml_config[group_id]
       THEN Fail(GroupNotFound(sec_group_id))
       ELSE pc' = "resolved" /\ UNCHANGED result
    /\ UNCHANGED <<toml_config, order, template_values, tera_context, stages,
                   template_opened>>
    /\ UNCHANGED <<flattenVars, inputVars, mainVars>>

\* let template_values = flatten_sections(group_section, &sec_group_id)
Flatten ==
    /\ pc = "resolved"
    /\ stages' = Append(stages, "flatten")
    /\ \E o \in Orders(DOMAIN toml_config[group_id]) :
         /\ order' = o
         /\ template_values' = flatten_sections(toml_config[group_id], sec_group_id, o)
    /\ pc' = "flattened"
    /\ UNCHANGED <<toml_config, tera_context, template_opened, result>>
    /\ UNCHANGED <<flattenVars, inputVars, mainVars>>

\* let tera_context = build_tera_context(template_values)
BuildContext ==
    /\ pc = "flattened"
    /\ tera_context' = build_tera_context(template_values)
    /\ pc' = "context"
    /\ UNCHANGED <<toml_config, order, template_values, stages, template_opened, result>>
    /\ UNCHANGED <<flattenVars, inputVars, mainVars>>

\* render_tera_template: tera.add_template_file(template_file_path, ..)?
AddTemplateFile ==
    /\ pc = "context"
    /\ stages' = Append(stages, "render")
    /\ template_opened' = TRUE
    /\ LET r == add_template_file_result(template_file_path, template_file) IN
         IF r # Pending THEN Fail(r)
         ELSE pc' = "compiled" /\ UNCHANGED result
    /\ UNCHANGED <<toml_config, order, template_values, tera_context>>
    /\ UNCHANGED <<flattenVars, inputVars, mainVars>>

\* render_tera_template: tera.render(template_name, &context)
Render ==
    /\ pc = "compiled"
    /\ pc' = "done"
    /\ result' = render_result(template_file.body, tera_context)
    /\ UNCHANGED <<toml_config, order, template_values, tera_context, stages,
                   template_opened>>
    /\ UNCHANGED <<flattenVars, inputVars, mainVars>>

(***************************************************************************)
(* run of main.rs, one action per stage. Its config argument is a String, *)
(* so it runs on the inputs whose config path is one.                      *)
(***************************************************************************)
MainFail(e) ==
    /\ main_pc' = "done"
    /\ main_result' = e

\* let config_file: String = read_file(&config_file_path)?
MainReadConfig ==
    /\ main_pc = "start"
    /\ config_file_path.some
    /\ LET r == main_read_file(config_file_path.path, config_file) IN
         IF r # Pending THEN MainFail(r)
         ELSE main_pc' = "read" /\ UNCHANGED main_result
    /\ UNCHANGED <<main_config, main_order, main_template_values, main_tera_context>>
    /\ UNCHANGED <<flattenVars, inputVars, coreVars>>

\* toml::from_str(config_file.as_str()).map_err(TmpTomlErr::Config)?
MainParseConfig ==
    /\ main_pc = "read"
    /\ IF config_file.state = "invalid"
       THEN MainFail(ConfigErr) /\ UNCHANGED main_config
       ELSE main_pc' = "parsed" /\ main_config' = config_file.body
            /\ UNCHANGED main_result
    /\ UNCHANGED <<main_order, main_template_values, main_tera_context>>
    /\ UNCHANGED <<flattenVars, inputVars, coreVars>>

\* if !config.contains_key(&group_id) { return Err(GroupNotFound(group_id)) }
MainResolveGroup ==
    /\ main_pc = "parsed"
    /\ IF group_id \notin DOMAIN main_config
       THEN MainFail(GroupNotFound(group_id))
       ELSE main_pc' = "group" /\ UNCHANGED main_result
    /\ UNCHANGED <<main_config, main_order, main_template_values, main_tera_context>>
    /\ UNCHANGED <<flattenVars, inputVars, coreVars>>

\* if !config[&group_id].contains_key(&sec_group_id) { return Err(..) }
MainResolveSecondaryGroup ==
    /\ main_pc = "group"
    /\ IF sec_group_id \notin DOMAIN main_config[group_id]
       THEN MainFail(GroupNotFound(sec_group_id))
       ELSE main_pc' = "resolved" /\ UNCHANGED main_result
    /\ UNCHANGED <<main_config, main_order, main_template_values, main_tera_context>>
    /\ UNCHANGED <<flattenVars, inputVars, coreVars>>

\* let template_values = flatten_sections(group_section)
MainFlatten ==
    /\ main_pc = "resolved"
    /\ \E o \in Orders(DOMAIN main_config[group_id]) :
         /\ main_order' = o
         /\ main_template_values' = main_flatten_sections(main_config[group_id], o)
    /\ main_pc' = "flattened"
    /\ UNCHANGED <<main_config, main_tera_context, main_result>>
    /\ UNCHANGED <<flattenVars, inputVars, coreVars>>

\* let tera_context = build_tera_context(template_values)
MainBuildContext ==
    /\ main_pc = "flattened"
    /\ main_tera_context' = build_tera_context(main_template_values)
    /\ main_pc' = "context"
    /\ UNCHANGED <<main_config, main_order, main_template_values, main_result>>
    /\ UNCHANGED <<flattenVars, inputVars, coreVars>>

\* render_tera_template of main.rs: add_template_file(..)?
MainAddTemplateFile ==
    /\ main_pc = "context"
    /\ LET r == add_template_file_result(template_file_path, template_file) IN
         IF r # Pending THEN MainFail(r)
         ELSE main_pc' = "compiled" /\ UNCHANGED main_result
    /\ UNCHANGED <<main_config, main_order, main_template_values, main_tera_context>>
    /\ UNCHANGED <<flattenVars, inputVars, coreVars>>

\* render_tera_template of main.rs: tera.render(template_name, &context)
MainRender ==
    /\ main_pc = "compiled"
    /\ main_pc' = "done"
    /\ main_result' = render_result(template_file.body, main_tera_context)
    /\ UNCHANGED <<main_config, main_order, main_template_values, main_tera_context>>
    /\ UNCHANGED <<flattenVars, inputVars, coreVars>>

(***************************************************************************)
(* Specifications.                                                         *)
(***************************************************************************)
NoFlattenCalls ==
    /\ group_section = EmptyMap
    /\ secondary_group_section_name = ""
    /\ first = NotRun
    /\ second = NotRun
    /\ unrelated = NotRun

PipelineAtStart ==
    /\ pc = "start"
    /\ toml_config = EmptyMap
    /\ order = <<>>
    /\ template_values = EmptyMap
    /\ tera_context = EmptyMap
    /\ stages = <<>>
    /\ template_opened = FALSE
    /\ result = Pending
    /\ main_pc = "start"
    /\ main_config = EmptyMap
    /\ main_order = <<>>
    /\ main_template_values = EmptyMap
    /\ main_tera_context = EmptyMap
    /\ main_result = Pending

\* The state before render_template and run are called on some arguments.
Init ==
    /\ NoFlattenCalls
    /\ \E c \in ConfigInputs : config_file_path = c[1] /\ config_file = c[2]
    /\ template_file_path = TemplatePath
    /\ template_file \in TemplateFiles
    /\ group_id \in GroupIds
    /\ sec_group_id \in {"b", "sub", "y"}
    /\ PipelineAtStart

Next ==
    \/ ReadConfig
    \/ ParseConfig
    \/ ResolveGroup
    \/ ResolveSecondaryGroup
    \/ Flatten
    \/ BuildContext
    \/ AddTemplateFile
    \/ Render
    \/ MainReadConfig
    \/ MainParseConfig
    \/ MainResolveGroup
    \/ MainResolveSecondaryGroup
    \/ MainFlatten
    \/ MainBuildContext
    \/ MainAddTemplateFile
    \/ MainRender

Spec == Init /\ [][Next]_vars

\* The state before flatten_sections is called on some group.
InitFlatten ==
    /\ group_section \in Groups
    /\ secondary_group_section_name \in MemberKeys \cup UnrelatedKeys
    /\ first = NotRun
    /\ second = NotRun
    /\ unrelated = NotRun
    /\ config_file_path = None
    /\ config_file = Unreadable
    /\ template_file_path = TemplatePath
    /\ template_file = Unreadable
    /\ group_id = ""
    /\ sec_group_id = ""
    /\ PipelineAtStart

NextFlatten == FlattenFirst \/ FlattenSecond \/ FlattenUnrelated

SpecFlatten == InitFlatten /\ [][NextFlatten]_vars

(***************************************************************************)
(* Properties of flatten_sections, checked under SpecFlatten.              *)
(***************************************************************************)
\* group_section has a member named id whose value is a table.
HasTableAt(id) ==
    id \in DOMAIN group_section /\ IsTable(group_section[id])

\* The keys of the selected secondary subgroup.
SecondaryKeys ==
    IF HasTableAt(secondary_group_section_name)
    THEN DOMAIN group_section[secondary_group_section_name].t
    ELSE {}

\* The members of the group that are neither tables nor named by the
\* secondary identifier.
ScalarMembers ==
    {k \in DOMAIN group_section :
        k # secondary_group_section_name /\ ~IsTable(group_section[k])}

\* The keys that occur only inside sibling subgroups: inside a table member
\* not named by the secondary identifier, and neither as a member of the
\* group nor inside the selected subgroup.
SiblingOnlyKeys ==
    {k \in InnerKeys :
        /\ \E m \in DOMAIN group_section :
              /\ m # secondary_group_section_name
              /\ IsTable(group_section[m])
              /\ k \in DOMAIN group_section[m].t
        /\ k \notin DOMAIN group_section
        /\ k \notin SecondaryKeys}

\* The keys defined both by a top-level scalar and inside the selected
\* subgroup.
CollidingKeys == ScalarMembers \cap SecondaryKeys

\* The position of member k in a traversal order.
Position(o, k) == CHOOSE i \in DOMAIN o : o[i] = k

\* C1: a key that occurs only inside sibling subgroups never appears in the
\* flattened result, whatever the traversal order.
C1_SiblingSkip ==
    first.ran => \A k \in SiblingOnlyKeys : k \notin DOMAIN first.flattened

\* C1 witness: a group with a selected subgroup and a sibling subgroup that
\* holds a key of its own has been flattened to a non-empty result.
C1_Witness ==
    /\ first.ran
    /\ HasTableAt(secondary_group_section_name)
    /\ SiblingOnlyKeys # {}
    /\ DOMAIN first.flattened = SecondaryKeys
    /\ SecondaryKeys # {}

\* C2 as stated: a key defined by a top-level scalar and inside the selected
\* subgroup is always mapped to the top-level scalar's value.
C2_TopLevelScalarWins ==
    first.ran =>
        \A k \in CollidingKeys :
            first.flattened[k] = ValueToString(group_section[k])

\* C2 amended: a colliding key is mapped to the value of whichever of the
\* scalar member and the subgroup member is traversed first.
C2_FirstTraversedWins ==
    first.ran =>
        \A k \in CollidingKeys :
            first.flattened[k] =
                IF Position(first.order, k)
                     < Position(first.order, secondary_group_section_name)
                THEN ValueToString(group_section[k])
                ELSE ValueToString(group_section[secondary_group_section_name].t[k])

\* C2 witness: the subgroup was traversed before the colliding scalar and
\* the inner entry's value, different from the scalar's, is in the result.
C2_Witness ==
    /\ first.ran
    /\ \E k \in CollidingKeys :
         /\ Position(first.order, secondary_group_section_name)
              < Position(first.order, k)
         /\ ValueToString(group_section[k])
              # ValueToString(group_section[secondary_group_section_name].t[k])
         /\ first.flattened[k]
              = ValueToString(group_section[secondary_group_section_name].t[k])

\* C3 as stated: without a table member named by the secondary identifier,
\* flattening equals flattening with an identifier that is no key of the
\* group.
C3_AbsentMatchLikeUnrelated ==
    (first.ran /\ unrelated.ran /\ ~HasTableAt(secondary_group_section_name))
        => first.flattened = unrelated.flattened

\* The input is well formed: the selected subgroup and the top-level scalars
\* define different keys.
WellFormed == CollidingKeys = {}

\* C7: on a well-formed input two runs of flatten_sections, each with its own
\* traversal order, yield the same mapping.
C7_FlattenDeterministic ==
    (first.ran /\ second.ran /\ WellFormed) => first.flattened = second.flattened

\* C7 witness: a well-formed group with a scalar member and a non-empty
\* selected subgroup has been flattened twice.
C7_Witness ==
    /\ first.ran
    /\ second.ran
    /\ WellFormed
    /\ ScalarMembers # {}
    /\ SecondaryKeys # {}
    /\ DOMAIN second.flattened = ScalarMembers \cup SecondaryKeys

(***************************************************************************)
(* Properties of the pipeline, checked under Spec.                         *)
(***************************************************************************)
\* The config file was read and parsed.
ConfigParses == config_file_path.some /\ config_file.state = "parses"

\* The stages of render_template in their order.
StageOrder == <<"load", "parse", "resolve", "flatten", "render">>

\* The positions of render_template after both groups were found.
AfterResolution == {"resolved", "flattened", "context", "compiled"}

\* C4: once the config has parsed, a missing group_id gives
\* GroupNotFound(group_id), otherwise a missing sec_group_id gives
\* GroupNotFound(sec_group_id), otherwise the run goes on to flattening.
C4_GroupResolution ==
    ConfigParses =>
        LET doc == config_file.body IN
        /\ pc \in AfterResolution =>
              group_id \in DOMAIN doc /\ sec_group_id \in DOMAIN doc[group_id]
        /\ pc = "done" =>
              IF group_id \notin DOMAIN doc
              THEN result = GroupNotFound(group_id)
              ELSE IF sec_group_id \notin DOMAIN doc[group_id]
              THEN result = GroupNotFound(sec_group_id)
              ELSE result.kind # "GroupNotFound" /\ Len(stages) >= 4

\* C4 witness: both identifiers are missing from a non-empty document and
\* the run has ended with the error for group_id.
C4_Witness ==
    /\ ConfigParses
    /\ pc = "done"
    /\ DOMAIN config_file.body # {}
    /\ group_id \notin DOMAIN config_file.body
    /\ \A g \in DOMAIN config_file.body : sec_group_id \notin DOMAIN config_file.body[g]
    /\ result = GroupNotFound(group_id)

\* The error kind of the earliest stage that fails on the inputs, "None"
\* when no stage before rendering fails.
EarliestFailure ==
    IF ~config_file_path.some \/ config_file.state = "unreadable" THEN "File"
    ELSE IF config_file.state = "invalid" THEN "Config"
    ELSE IF \/ group_id \notin DOMAIN config_file.body
            \/ sec_group_id \notin DOMAIN config_file.body[group_id]
         THEN "GroupNotFound"
    ELSE IF template_file.state # "parses" THEN "Render"
    ELSE "None"

\* C5: the stages run in the fixed order, the run returns the error of the
\* earliest stage that fails, and after a failure no later stage runs: the
\* template file is not opened unless every earlier stage succeeded.
C5_FirstFailureWins ==
    /\ stages = SubSeq(StageOrder, 1, Len(stages))
    /\ pc = "done" =>
          /\ EarliestFailure # "None" => result.kind = EarliestFailure
          /\ EarliestFailure = "None" => result.kind \in {"Ok", "Render"}
    /\ result.kind = "File" => stages = <<"load">> /\ ~template_opened
    /\ result.kind = "Config" => stages = <<"load", "parse">> /\ ~template_opened
    /\ result.kind = "GroupNotFound" =>
          stages = <<"load", "parse", "resolve">> /\ ~template_opened
    /\ template_opened => EarliestFailure \in {"Render", "None"}

\* C5 witness: the config and the template are both unreadable and the run
\* has ended with the File error, the template unopened.
C5_Witness ==
    /\ pc = "done"
    /\ config_file_path.some
    /\ config_file = Unreadable
    /\ template_file = Unreadable
    /\ result.kind = "File"
    /\ ~template_opened

\* C6 as stated: an unreadable template file gives
\* Render(TemplateNotFound(path)), and InvalidTemplate is given only for a
\* file that was read and did not compile.
C6_UnreadableTemplateNotFound ==
    (pc = "done" /\ template_opened) =>
        /\ template_file.state = "unreadable" =>
              result = RenderErr("TemplateNotFound", template_file_path)
        /\ result.sub = "InvalidTemplate" => template_file.state = "invalid"

\* C8: a config path that cannot be read ends the run with
\* File(FileNotFound(p)), p the supplied path, and an absent or empty path
\* with File(FileNotFound("")); nothing is rendered.
C8_ConfigNotFound ==
    pc = "done" =>
        /\ ~config_file_path.some => result = FileErr("")
        /\ (config_file_path.some /\ config_file.state = "unreadable") =>
              result = FileErr(config_file_path.path)
        /\ (config_file_path.some /\ config_file_path.path = "") =>
              result = FileErr("")
        /\ result.kind = "File" => stages = <<"load">> /\ ~template_opened

\* C8 witness: the run ended with the File error carrying the non-empty
\* config path.
C8_Witness ==
    /\ pc = "done"
    /\ config_file_path = Some(ConfigPath)
    /\ config_file = Unreadable
    /\ result = FileErr(ConfigPath)

\* C9 as stated: group a with foo = "bar" and subgroup b with baz = "qux"
\* renders the template Hello {{ foo }} and {{ baz }} to Hello bar and qux.
C9_EndToEnd ==
    ( /\ pc = "done"
      /\ ConfigParses
      /\ group_id = "a"
      /\ sec_group_id = "b"
      /\ group_id \in DOMAIN config_file.body
      /\ config_file.body[group_id] = EndToEndGroup
      /\ template_file = Parses(HelloTemplate) )
        => result = Ok("Hello bar and qux")

\* The positions of run after its flatten_sections has returned.
MainHanded == {"flattened", "context", "compiled"}

\* The errors that end a run before flattening.
EarlyErrors == {"File", "Config", "GroupNotFound"}

\* C10 as stated: on the same inputs run of main.rs and render_template
\* return the same early error, or hand the same flattened mapping to the
\* renderer when their traversal orders agree.
C10_CliMatchesCore ==
    /\ (pc = "done" /\ main_pc = "done"
          /\ (result.kind \in EarlyErrors \/ main_result.kind \in EarlyErrors))
         => result = main_result
    /\ (pc \in {"flattened", "context", "compiled"} /\ main_pc \in MainHanded
          /\ order = main_order)
         => template_values = main_template_values

====
